---- MODULE Spec2Model ----
(***************************************************************************)
(* Model of fs_dfs_hdlr (src/utils/daos_dfs_hdlr.c): the staged            *)
(* connect / open / mount / dispatch / unwind protocol of the daos(8)      *)
(* filesystem handler.  One action per statement group between two         *)
(* external calls; every external call returns a code chosen from a small  *)
(* set.                                                                    *)
(***************************************************************************)
EXTENDS Integers, Sequences, FiniteSets

\* Number of distinct failure codes each library layer may produce.
NumErr == 2
\* Number of distinct object class identifiers the store may report.
MaxOclass == 2

\* ap->fs_op: the four recognized operations and one value outside them.
FsOps == {"FS_GET_OCLASS", "FS_GET_CSIZE", "FS_SET_OCLASS", "FS_SET_CSIZE", "FS_OTHER"}
RecognizedOps == {"FS_GET_OCLASS", "FS_GET_CSIZE", "FS_SET_OCLASS", "FS_SET_CSIZE"}
GetOps == {"FS_GET_OCLASS", "FS_GET_CSIZE"}
SetOps == {"FS_SET_OCLASS", "FS_SET_CSIZE"}

\* ap->dfs_prefix: a NULL pointer or a path string.
Prefixes == {"NULL", "/pfx"}

\* daos_* calls return 0 or a negative DER code, dfs_* calls 0 or an errno.
DaosRets == {0} \cup {-(1000 + i) : i \in 1..NumErr}
DfsRets == {0} \cup (1..NumErr)

\* Values dfs_obj_get_info may store in info.
ChunkSizes == {4096, 1048576}
ObjInfos == [doi_oclass_id : 1..MaxOclass, doi_chunk_size : ChunkSizes]
NoInfo == [doi_oclass_id |-> 0, doi_chunk_size |-> 0]

VARIABLES
    fs_op,       \* ap->fs_op
    dfs_prefix,  \* ap->dfs_prefix
    pc,          \* position of the handler
    rc,          \* local rc
    rc2,         \* local rc2
    flags,       \* local flags
    pool,        \* ap->pool: "none", "held", "released"
    cont,        \* ap->cont
    dfs,         \* local dfs
    obj,         \* local obj
    info,        \* local info
    calls,       \* external calls made so far, in order
    out,         \* what was written to stdout
    err,         \* what was written to stderr
    ret          \* <<>> until the function returns, then <<value>>

vars == <<fs_op, dfs_prefix, pc, rc, rc2, flags, pool, cont, dfs, obj, info,
          calls, out, err, ret>>

\* One external call: the function, the mode argument it was given, its result.
Call(fn, arg, r) == [fn |-> fn, arg |-> arg, ret |-> r]
\* One write to a stream, with the number of calls made before it.
Line(what, code) == [what |-> what, code |-> code, at |-> Len(calls) + 1]

\* daos_errno2der: translation of an errno into a DER code: 0 stays 0, EPERM
\* becomes -DER_NO_PERM, ENOENT -DER_NONEXIST, any other errno -DER_MISC.
daos_errno2der(e) ==
    IF e = 0 THEN 0
    ELSE IF e = 1 THEN -1001
    ELSE IF e = 2 THEN -1005
    ELSE -1025

\* daos_oclass_id2name: the symbolic name of an object class.
daos_oclass_id2name(id) == IF id = 1 THEN "S1" ELSE IF id = 2 THEN "S2" ELSE "UNKNOWN"

\* The access mode chosen from the operation.
MountFlagsBad(op) == IF op \in GetOps THEN "O_RDWR" ELSE "O_RDONLY"
MountFlagsDefaultRW(op) == IF op \in GetOps THEN "O_RDONLY" ELSE "O_RDWR"
MountFlags(op) == IF op \in SetOps THEN "O_RDWR" ELSE "O_RDONLY"

\* rc = daos_errno2der(rc) on the mount failure branch.
MountFailRcRaw(r) == r
MountFailRc(r) == daos_errno2der(r)

\* dfs_release(obj); on the get-info failure branch: rc keeps its value, the
\* result of the call is discarded.
RcAfterErrReleaseBad(r, rel) == rel
RcAfterErrRelease(r, rel) == r

\* if (rc == 0) rc = rc2;
MergeRcBad(r, r2) == IF r2 # 0 THEN r2 ELSE r
MergeRcDrop(r, r2) == r
MergeRc(r, r2) == IF r = 0 THEN r2 ELSE r

\* Where each failure branch goes.
ConnectFailLabelBad == "out_disconnect"
ConnectFailLabel == "return"
OpenFailLabelBad == "out_close"
OpenFailLabel == "out_disconnect"
MountFailLabelBad == "out_umount"
MountFailLabel == "out_close"
PrefixFailLabelBad == "out_close"
PrefixFailLabel == "out_umount"
LookupFailLabelBad == "get_info"
LookupFailLabel == "out_umount"
GetInfoFailLabelBad == "out_umount"
GetInfoFailLabel == "release_err"
ReleaseFailLabelBad == "print"
ReleaseFailLabelRetry == "release_err"
ReleaseFailLabel == "out_umount"

\* The switch on ap->fs_op.
SwitchTargetBad(op) == IF op \in RecognizedOps THEN "lookup" ELSE "assert"
SwitchTargetNoDefault(op) ==
    IF op \in GetOps THEN "lookup"
    ELSE IF op = "FS_SET_OCLASS" THEN "set_oclass"
    ELSE IF op = "FS_SET_CSIZE" THEN "set_csize"
    ELSE "out_umount"
SwitchTarget(op) ==
    IF op \in GetOps THEN "lookup"
    ELSE IF op = "FS_SET_OCLASS" THEN "set_oclass"
    ELSE IF op = "FS_SET_CSIZE" THEN "set_csize"
    ELSE "assert"

\* Fall-through order of the unwind labels.
UnwindNextBad(label) ==
    IF label = "out_umount" THEN "out_disconnect"
    ELSE IF label = "out_disconnect" THEN "out_close"
    ELSE "return"
UnwindNext(label) ==
    IF label = "out_umount" THEN "out_close"
    ELSE IF label = "out_close" THEN "out_disconnect"
    ELSE "return"

\* Where control goes after the release at a label: the next label, whatever
\* the release returned in rc2.
AfterReleaseBad(label, r2) == IF r2 # 0 THEN "return" ELSE UnwindNext(label)
AfterRelease(label, r2) == UnwindNext(label)

\* Transfer of control to a label; "return" is return rc.
Goto(label, r) ==
    IF label = "return"
    THEN pc' = "returned" /\ ret' = <<r>>
    ELSE pc' = label /\ ret' = ret

Init ==
    /\ fs_op \in FsOps
    /\ dfs_prefix \in Prefixes
    /\ pc = "connect"
    /\ rc = 0
    /\ rc2 = 0
    /\ flags = "unset"
    /\ pool = "none"
    /\ cont = "none"
    /\ dfs = "none"
    /\ obj = "none"
    /\ info = NoInfo
    /\ calls = <<>>
    /\ out = <<>>
    /\ err = <<>>
    /\ ret = <<>>

\* rc = daos_pool_connect(...); if (rc != 0) { fprintf; return rc; }
PoolConnect ==
    /\ pc = "connect"
    /\ \E r \in DaosRets :
        /\ calls' = Append(calls, Call("daos_pool_connect", "DAOS_PC_RW", r))
        /\ rc' = r
        /\ IF r # 0
           THEN /\ err' = Append(err, Line("connect", r))
                /\ pool' = pool
                /\ Goto(ConnectFailLabel, r)
           ELSE /\ err' = err
                /\ pool' = "held"
                /\ Goto("cont_open", r)
    /\ UNCHANGED <<fs_op, dfs_prefix, rc2, flags, cont, dfs, obj, info, out>>

\* rc = daos_cont_open(...); if (rc != 0) { fprintf; goto out_disconnect; }
ContOpen ==
    /\ pc = "cont_open"
    /\ \E r \in DaosRets :
        /\ calls' = Append(calls, Call("daos_cont_open", "DAOS_COO_RW|DAOS_COO_FORCE", r))
        /\ rc' = r
        /\ IF r # 0
           THEN /\ err' = Append(err, Line("open", r))
                /\ cont' = cont
                /\ Goto(OpenFailLabel, r)
           ELSE /\ err' = err
                /\ cont' = "held"
                /\ Goto("mount", r)
    /\ UNCHANGED <<fs_op, dfs_prefix, rc2, flags, pool, dfs, obj, info, out>>

\* flags = ...; rc = dfs_mount(pool, cont, flags, &dfs);
\* if (rc) { fprintf; rc = daos_errno2der(rc); goto out_close; }
Mount ==
    /\ pc = "mount"
    /\ flags' = MountFlags(fs_op)
    /\ \E r \in DfsRets :
        /\ calls' = Append(calls, Call("dfs_mount", flags', r))
        /\ IF r # 0
           THEN /\ err' = Append(err, Line("mount", r))
                /\ dfs' = dfs
                /\ rc' = MountFailRc(r)
                /\ Goto(MountFailLabel, rc')
           ELSE /\ err' = err
                /\ dfs' = "held"
                /\ rc' = r
                /\ Goto("prefix", r)
    /\ UNCHANGED <<fs_op, dfs_prefix, rc2, pool, cont, obj, info, out>>

\* if (ap->dfs_prefix) { rc = dfs_set_prefix(...); if (rc) goto out_umount; }
SetPrefix ==
    /\ pc = "prefix"
    /\ IF dfs_prefix # "NULL"
       THEN \E r \in DfsRets :
            /\ calls' = Append(calls, Call("dfs_set_prefix", dfs_prefix, r))
            /\ rc' = r
            /\ IF r # 0 THEN Goto(PrefixFailLabel, r) ELSE Goto("switch", r)
       ELSE /\ calls' = calls
            /\ rc' = rc
            /\ Goto("switch", rc)
    /\ UNCHANGED <<fs_op, dfs_prefix, rc2, flags, pool, cont, dfs, obj, info, out, err>>

\* switch (ap->fs_op)
Switch ==
    /\ pc = "switch"
    /\ Goto(SwitchTarget(fs_op), rc)
    /\ UNCHANGED <<fs_op, dfs_prefix, rc, rc2, flags, pool, cont, dfs, obj, info,
                   calls, out, err>>

\* rc = dfs_lookup(dfs, path, flags, &obj, ...); if (rc) { fprintf; goto out_umount; }
Lookup ==
    /\ pc = "lookup"
    /\ \E r \in DfsRets :
        /\ calls' = Append(calls, Call("dfs_lookup", flags, r))
        /\ rc' = r
        /\ IF r # 0
           THEN /\ err' = Append(err, Line("lookup", r))
                /\ obj' = obj
                /\ Goto(LookupFailLabel, r)
           ELSE /\ err' = err
                /\ obj' = "held"
                /\ Goto("get_info", r)
    /\ UNCHANGED <<fs_op, dfs_prefix, rc2, flags, pool, cont, dfs, info, out>>

\* rc = dfs_obj_get_info(obj, &info); if (rc) { fprintf; ... }
GetInfo ==
    /\ pc = "get_info"
    /\ \E r \in DfsRets :
        /\ calls' = Append(calls, Call("dfs_obj_get_info", "", r))
        /\ rc' = r
        /\ IF r # 0
           THEN /\ err' = Append(err, Line("get_info", r))
                /\ info' = info
                /\ Goto(GetInfoFailLabel, r)
           ELSE /\ err' = err
                /\ \E i \in ObjInfos : info' = i
                /\ Goto("release", r)
    /\ UNCHANGED <<fs_op, dfs_prefix, rc2, flags, pool, cont, dfs, obj, out>>

\* the failure branch of get-info: dfs_release(obj); goto out_umount;
ReleaseOnError ==
    /\ pc = "release_err"
    /\ \E r \in DfsRets :
        /\ calls' = Append(calls, Call("dfs_release", "", r))
        /\ rc' = RcAfterErrRelease(rc, r)
    /\ obj' = "released"
    /\ Goto("out_umount", rc')
    /\ UNCHANGED <<fs_op, dfs_prefix, rc2, flags, pool, cont, dfs, info, out, err>>

\* rc = dfs_release(obj); if (rc) { fprintf; goto out_umount; }
Release ==
    /\ pc = "release"
    /\ \E r \in DfsRets :
        /\ calls' = Append(calls, Call("dfs_release", "", r))
        /\ rc' = r
        /\ IF r # 0
           THEN /\ err' = Append(err, Line("release", r))
                /\ Goto(ReleaseFailLabel, r)
           ELSE /\ err' = err
                /\ Goto("print", r)
    /\ obj' = "released"
    /\ UNCHANGED <<fs_op, dfs_prefix, rc2, flags, pool, cont, dfs, info, out>>

\* daos_oclass_id2name(...); printf("Object Class ..."); printf("Object Chunk Size ..."); break;
PrintInfo ==
    /\ pc = "print"
    /\ out' = out \o
         <<[what |-> "Object Class", name |-> daos_oclass_id2name(info.doi_oclass_id),
            num |-> info.doi_oclass_id, nl |-> TRUE],
           [what |-> "Object Chunk Size", name |-> "",
            num |-> info.doi_chunk_size, nl |-> TRUE]>>
    /\ Goto("out_umount", rc)
    /\ UNCHANGED <<fs_op, dfs_prefix, rc, rc2, flags, pool, cont, dfs, obj, info,
                   calls, err>>

\* case FS_SET_OCLASS: printf("FS_SET_OCLASS"); break;
SetOclass ==
    /\ pc = "set_oclass"
    /\ out' = Append(out, [what |-> "FS_SET_OCLASS", name |-> "", num |-> 0, nl |-> FALSE])
    /\ Goto("out_umount", rc)
    /\ UNCHANGED <<fs_op, dfs_prefix, rc, rc2, flags, pool, cont, dfs, obj, info,
                   calls, err>>

\* case FS_SET_CSIZE: printf("FS_SET_CSIZE"); break;
SetCsize ==
    /\ pc = "set_csize"
    /\ out' = Append(out, [what |-> "FS_SET_CSIZE", name |-> "", num |-> 0, nl |-> FALSE])
    /\ Goto("out_umount", rc)
    /\ UNCHANGED <<fs_op, dfs_prefix, rc, rc2, flags, pool, cont, dfs, obj, info,
                   calls, err>>

\* default: D_ASSERT(0);
AssertFail ==
    /\ pc = "assert"
    /\ pc' = "aborted"
    /\ UNCHANGED <<fs_op, dfs_prefix, rc, rc2, flags, pool, cont, dfs, obj, info,
                   calls, out, err, ret>>

\* out_umount: rc2 = dfs_umount(dfs); if (rc2 != 0) fprintf; if (rc == 0) rc = rc2;
Umount ==
    /\ pc = "out_umount"
    /\ \E r \in DfsRets :
        /\ calls' = Append(calls, Call("dfs_umount", "", r))
        /\ rc2' = r
        /\ err' = IF r # 0 THEN Append(err, Line("umount", r)) ELSE err
        /\ rc' = MergeRc(rc, r)
        /\ Goto(AfterRelease("out_umount", r), rc')
    /\ dfs' = "released"
    /\ UNCHANGED <<fs_op, dfs_prefix, flags, pool, cont, obj, info, out>>

\* out_close: rc2 = daos_cont_close(ap->cont, NULL); ... if (rc == 0) rc = rc2;
ContClose ==
    /\ pc = "out_close"
    /\ \E r \in DaosRets :
        /\ calls' = Append(calls, Call("daos_cont_close", "", r))
        /\ rc2' = r
        /\ err' = IF r # 0 THEN Append(err, Line("close", r)) ELSE err
        /\ rc' = MergeRc(rc, r)
        /\ Goto(AfterRelease("out_close", r), rc')
    /\ cont' = "released"
    /\ UNCHANGED <<fs_op, dfs_prefix, flags, pool, dfs, obj, info, out>>

\* out_disconnect: rc2 = daos_pool_disconnect(ap->pool, NULL); ...; return rc;
PoolDisconnect ==
    /\ pc = "out_disconnect"
    /\ \E r \in DaosRets :
        /\ calls' = Append(calls, Call("daos_pool_disconnect", "", r))
        /\ rc2' = r
        /\ err' = IF r # 0 THEN Append(err, Line("disconnect", r)) ELSE err
        /\ rc' = MergeRc(rc, r)
        /\ Goto(AfterRelease("out_disconnect", r), rc')
    /\ pool' = "released"
    /\ UNCHANGED <<fs_op, dfs_prefix, flags, cont, dfs, obj, info, out>>

Next ==
    \/ PoolConnect
    \/ ContOpen
    \/ Mount
    \/ SetPrefix
    \/ Switch
    \/ Lookup
    \/ GetInfo
    \/ ReleaseOnError
    \/ Release
    \/ PrintInfo
    \/ SetOclass
    \/ SetCsize
    \/ AssertFail
    \/ Umount
    \/ ContClose
    \/ PoolDisconnect

Spec == Init /\ [][Next]_vars

\* The handler is one sequential thread and every external call returns, so
\* a step that is possible is eventually taken.
FairSpec == Spec /\ WF_vars(Next)

(***************************************************************************)
(* Observations over the log of external calls.                            *)
(***************************************************************************)
CallIdx(fn) == {i \in 1..Len(calls) : calls[i].fn = fn}
Count(fn) == Cardinality(CallIdx(fn))
Succeeded(fn) == \E i \in CallIdx(fn) : calls[i].ret = 0
Failed(fn) == \E i \in CallIdx(fn) : calls[i].ret # 0
AllCallsOk == \A i \in 1..Len(calls) : calls[i].ret = 0
Fns(from) == [i \in 1..(Len(calls) - from) |-> calls[from + i].fn]
InfoLines == {i \in 1..Len(out) : out[i].what \in {"Object Class", "Object Chunk Size"}}
FullUnwind == <<"dfs_umount", "daos_cont_close", "daos_pool_disconnect">>

\* Position of a release call in the reverse-acquisition order; 0 for other calls.
RelRank(fn) ==
    IF fn = "dfs_release" THEN 1
    ELSE IF fn = "dfs_umount" THEN 2
    ELSE IF fn = "daos_cont_close" THEN 3
    ELSE IF fn = "daos_pool_disconnect" THEN 4
    ELSE 0

\* Released exactly once if acquired, never otherwise.
Paired(acq, rel) == IF Succeeded(acq) THEN Count(rel) = 1 ELSE Count(rel) = 0

\* C1: when the handler returns from one of the four recognized operations,
\* each acquisition that succeeded (pool connect, container open, mount,
\* lookup) has had its release call invoked exactly once, and no release call
\* was invoked for an acquisition that failed or was not attempted.
C1_ReleasedExactlyOnce ==
    (pc = "returned" /\ fs_op \in RecognizedOps) =>
        /\ Paired("daos_pool_connect", "daos_pool_disconnect")
        /\ Paired("daos_cont_open", "daos_cont_close")
        /\ Paired("dfs_mount", "dfs_umount")
        /\ Paired("dfs_lookup", "dfs_release")

\* C1 witness: a returned get run whose get-info failed after a successful
\* lookup, with all four resources released.
C1_Witness ==
    /\ pc = "returned"
    /\ fs_op \in GetOps
    /\ Succeeded("dfs_lookup")
    /\ Failed("dfs_obj_get_info")
    /\ Count("dfs_release") = 1
    /\ Count("dfs_umount") = 1
    /\ Count("daos_cont_close") = 1
    /\ Count("daos_pool_disconnect") = 1

\* C2: releases happen in reverse order of acquisition: any two release calls
\* occur in the order dfs_release, dfs_umount, daos_cont_close,
\* daos_pool_disconnect, and no resource is released while one that depends
\* on it is still held.
C2_ReverseOrder ==
    /\ \A i, j \in 1..Len(calls) :
        (i < j /\ RelRank(calls[i].fn) > 0 /\ RelRank(calls[j].fn) > 0)
            => RelRank(calls[i].fn) < RelRank(calls[j].fn)
    /\ pool = "released" => cont # "held"
    /\ cont = "released" => dfs # "held"
    /\ dfs = "released" => obj # "held"

\* C2 witness: all four release calls have been made.
C2_Witness ==
    /\ pc = "returned"
    /\ Count("dfs_release") = 1
    /\ Count("dfs_umount") = 1
    /\ Count("daos_cont_close") = 1
    /\ Count("daos_pool_disconnect") = 1
    /\ pool = "released"

\* The code a call contributes to the result: its own, except that the code
\* of dfs_mount is passed through daos_errno2der.
Reported(c) == IF c.fn = "dfs_mount" THEN daos_errno2der(c.ret) ELSE c.ret
FailIdx == {i \in 1..Len(calls) : calls[i].ret # 0}
FirstFail == CHOOSE i \in FailIdx : \A j \in FailIdx : i <= j

\* C3 as stated: the value returned is the first non-success code produced
\* by any call of the run.
C3_FirstRawCodeReturned ==
    pc = "returned" =>
        ret = IF FailIdx = {} THEN <<0>> ELSE <<calls[FirstFail].ret>>

\* C3 amended: the value returned is the code of the first failing call of the
\* run, taken as returned by the call except for dfs_mount, whose code is
\* translated by daos_errno2der; with no failing call the value is zero.  A
\* failing release therefore never replaces an earlier failure and is
\* returned when it is the first failure.
C3_FirstFailureReturned ==
    pc = "returned" =>
        ret = IF FailIdx = {} THEN <<0>> ELSE <<Reported(calls[FirstFail])>>

\* C3 witness: an earlier failure followed by a failing release.
C3_Witness ==
    /\ pc = "returned"
    /\ Failed("dfs_lookup")
    /\ Failed("dfs_umount")
    /\ Failed("daos_pool_disconnect")

\* C4: for the four recognized operations the handler returns zero exactly
\* when every external call it made returned success.
C4_ZeroIffAllOk ==
    (pc = "returned" /\ fs_op \in RecognizedOps) => (ret = <<0>> <=> AllCallsOk)

\* C4 witness: only a release failed and the value returned is not zero.
C4_Witness ==
    /\ pc = "returned"
    /\ fs_op \in RecognizedOps
    /\ FailIdx = CallIdx("daos_cont_close")
    /\ FailIdx # {}
    /\ ret # <<0>>

\* C5: when pool connect fails no other call is made, neither an acquisition
\* nor a release, and the value returned is the connect code.
C5_ConnectFailure ==
    /\ Len(calls) >= 1 => calls[1].fn = "daos_pool_connect"
    /\ Failed("daos_pool_connect") =>
        /\ Len(calls) = 1
        /\ pc = "returned"
        /\ ret = <<calls[1].ret>>
        /\ pool = "none"

\* C5 witness: connect failed.
C5_Witness == Failed("daos_pool_connect") /\ pc = "returned"

\* C6: when connect succeeds and container open fails, the only further call
\* is one pool disconnect, and the value returned is the open code whatever
\* the disconnect returns.
C6_OpenFailure ==
    Failed("daos_cont_open") =>
        /\ Succeeded("daos_pool_connect")
        /\ CallIdx("daos_cont_open") = {2}
        /\ Len(calls) <= 3
        /\ Len(calls) = 3 => calls[3].fn = "daos_pool_disconnect"
        /\ pc \in {"out_disconnect", "returned"}
        /\ pc = "returned" => (Len(calls) = 3 /\ ret = <<calls[2].ret>>)

\* C6 witness: open failed and the disconnect failed too.
C6_Witness ==
    /\ pc = "returned"
    /\ Failed("daos_cont_open")
    /\ Failed("daos_pool_disconnect")

\* C7: the mount call is given read-write access exactly for the two set
\* operations and read-only access for the two get operations; a lookup is
\* given the access mode of the mount call of the same run, which is
\* read-only.
C7_AccessMode ==
    /\ \A i \in CallIdx("dfs_mount") :
        /\ calls[i].arg = "O_RDWR" <=> fs_op \in SetOps
        /\ fs_op \in GetOps => calls[i].arg = "O_RDONLY"
    /\ \A j \in CallIdx("dfs_lookup") :
        /\ \E i \in CallIdx("dfs_mount") : i < j /\ calls[i].arg = calls[j].arg
        /\ calls[j].arg = "O_RDONLY"

\* C7 witness: a get run that mounted read-only and made its lookup.
C7_Witness ==
    /\ fs_op \in GetOps
    /\ \E i \in CallIdx("dfs_mount") : calls[i].arg = "O_RDONLY"
    /\ Count("dfs_lookup") = 1

\* C8: when lookup fails, get-info and object release are never called, no
\* info line is printed, the remaining calls are unmount, close and
\* disconnect once each in that order, and the value returned is the lookup
\* code whatever the three releases return.
C8_LookupFailure ==
    Failed("dfs_lookup") =>
        /\ fs_op \in GetOps
        /\ Count("dfs_lookup") = 1
        /\ Count("dfs_obj_get_info") = 0
        /\ Count("dfs_release") = 0
        /\ obj = "none"
        /\ out = <<>>
        /\ \A l \in CallIdx("dfs_lookup") :
            /\ Len(calls) - l <= 3
            /\ \A k \in 1..(Len(calls) - l) : calls[l + k].fn = FullUnwind[k]
            /\ pc = "returned" => (Len(calls) = l + 3 /\ ret = <<calls[l].ret>>)

\* C8 witness: lookup failed and every release failed.
C8_Witness ==
    /\ pc = "returned"
    /\ Failed("dfs_lookup")
    /\ Failed("dfs_umount")
    /\ Failed("daos_cont_close")
    /\ Failed("daos_pool_disconnect")

\* C9: a get run in which every call succeeds writes exactly two lines, the
\* object class (name and number) and then the chunk size, and returns zero;
\* info lines are written only after lookup, get-info and the object release
\* all succeeded, and never by a set operation.
C9_InfoLines ==
    /\ (pc = "returned" /\ fs_op \in GetOps /\ AllCallsOk) =>
        /\ Len(out) = 2
        /\ out[1].what = "Object Class" /\ out[1].nl
        /\ out[1].num = info.doi_oclass_id
        /\ out[1].name = daos_oclass_id2name(info.doi_oclass_id)
        /\ out[2].what = "Object Chunk Size" /\ out[2].nl
        /\ out[2].num = info.doi_chunk_size
        /\ info \in ObjInfos
        /\ ret = <<0>>
    /\ InfoLines # {} =>
        /\ fs_op \notin SetOps
        /\ Succeeded("dfs_lookup")
        /\ Succeeded("dfs_obj_get_info")
        /\ Succeeded("dfs_release")
        /\ ~Failed("dfs_release")

\* C9 witness: a fully successful get run.
C9_Witness ==
    /\ pc = "returned"
    /\ fs_op \in GetOps
    /\ AllCallsOk
    /\ Len(out) = 2

\* The stage chain succeeded: connect, open, mount and, with a prefix, set-prefix.
ChainOk ==
    /\ Succeeded("daos_pool_connect")
    /\ Succeeded("daos_cont_open")
    /\ Succeeded("dfs_mount")
    /\ IF dfs_prefix = "NULL" THEN Count("dfs_set_prefix") = 0 ELSE Succeeded("dfs_set_prefix")
    /\ pc # "prefix"
ChainLen == IF dfs_prefix = "NULL" THEN 3 ELSE 4
KnownFns == {"daos_pool_connect", "daos_cont_open", "dfs_mount", "dfs_set_prefix",
             "dfs_umount", "daos_cont_close", "daos_pool_disconnect"}

\* C10: a set operation makes no lookup, get-info or object-release call and
\* no call other than the chain and the three releases; once the chain has
\* succeeded it writes one acknowledgment and the only calls that follow are
\* unmount, close and disconnect in that order, returning zero when the
\* three succeed.
C10_SetOps ==
    fs_op \in SetOps =>
        /\ \A i \in 1..Len(calls) : calls[i].fn \in KnownFns
        /\ obj = "none"
        /\ ChainOk =>
            /\ \A k \in 1..(Len(calls) - ChainLen) : calls[ChainLen + k].fn = FullUnwind[k]
            /\ Len(calls) <= ChainLen + 3
            /\ Len(calls) > ChainLen => (Len(out) = 1 /\ out[1].what = fs_op)
            /\ Len(out) <= 1
            /\ pc = "returned" =>
                /\ Len(calls) = ChainLen + 3
                /\ Len(out) = 1 /\ out[1].what = fs_op
                /\ AllCallsOk => ret = <<0>>

\* C10 witness: a set run that returned zero after the full unwind.
C10_Witness ==
    /\ pc = "returned"
    /\ fs_op \in SetOps
    /\ ChainOk
    /\ Len(out) = 1
    /\ ret = <<0>>

\* The diagnostics written for call number i: those written after it and
\* before the next call.
ErrFor(i) == {k \in 1..Len(err) : err[k].at = i}

\* C11: every failing external call has a diagnostic on the error stream,
\* written during the same run.
C11_EveryFailureReported ==
    \A i \in FailIdx : ErrFor(i) # {}

\* The calls whose failure the handler reports: all but dfs_set_prefix and
\* the dfs_release of the get-info failure branch.
ReportedFailure(i) ==
    /\ calls[i].fn # "dfs_set_prefix"
    /\ ~(calls[i].fn = "dfs_release" /\ Failed("dfs_obj_get_info"))

\* What the handler does about diagnostics: one for each failing call other
\* than dfs_set_prefix and the release on the get-info failure branch, none
\* for those two and none for a call that succeeded.
C11_ReportedFailures ==
    \A i \in 1..Len(calls) :
        IF calls[i].ret # 0 /\ ReportedFailure(i)
        THEN Cardinality(ErrFor(i)) = 1
        ELSE ErrFor(i) = {}

\* The operation value lies outside the four recognized ones.
Unrecognized == fs_op \notin RecognizedOps
ChainFns == {"daos_pool_connect", "daos_cont_open", "dfs_mount", "dfs_set_prefix"}

\* C12 as stated: with an unrecognized operation the handler never returns a
\* code, whatever the external calls return.
C12_NeverReturns ==
    Unrecognized => pc # "returned"

\* C12 amended: with an unrecognized operation the handler ends in the
\* assertion failure and returns nothing when connect, open, mount and the
\* optional set-prefix all succeed; when one of them fails the assertion is
\* not reached and the handler returns a non-zero code after the unwind.
C12_AbortAfterChain ==
    /\ [](Unrecognized =>
            /\ ChainOk => (pc \in {"switch", "assert", "aborted"} /\ ret = <<>>)
            /\ pc = "returned" =>
                /\ \E i \in FailIdx : calls[i].fn \in ChainFns
                /\ ret # <<0>>
                /\ Len(ret) = 1)
    /\ (Unrecognized /\ ChainOk) ~> (pc = "aborted")

\* C12 witness: the assertion failed.
C12_Witness ==
    /\ pc = "aborted"
    /\ Unrecognized
    /\ ret = <<>>

\* C13: a failing release does not stop the unwind: once the unwind is
\* entered at unmount, or the unmount has failed, container close and pool
\* disconnect are still invoked; after a failed close the disconnect is
\* still invoked; and pool disconnect is eventually invoked in every run of
\* a recognized operation in which connect succeeded.
C13_UnwindContinues ==
    /\ (pc = "out_umount") ~>
            (Count("dfs_umount") = 1 /\ Count("daos_cont_close") = 1
                /\ Count("daos_pool_disconnect") = 1)
    /\ Failed("dfs_umount") ~>
            (Count("daos_cont_close") = 1 /\ Count("daos_pool_disconnect") = 1)
    /\ Failed("daos_cont_close") ~> (Count("daos_pool_disconnect") = 1)
    /\ (Succeeded("daos_pool_connect") /\ fs_op \in RecognizedOps) ~>
            (Count("daos_pool_disconnect") = 1 /\ pc = "returned")

\* C13 witness: unmount and close both failed and the pool was disconnected.
C13_Witness ==
    /\ Failed("dfs_umount")
    /\ Failed("daos_cont_close")
    /\ Count("daos_pool_disconnect") = 1
    /\ pc = "returned"

GetInfoUnwind == <<"dfs_release", "dfs_umount", "daos_cont_close", "daos_pool_disconnect">>
GetInfoLines == {k \in 1..Len(err) : err[k].what = "get_info"}

\* C14 as stated, its ordering part: when the get-info failure is written to
\* the error stream the object handle has already been released.
C14_ReleaseBeforeReport ==
    \A k \in GetInfoLines : \E j \in CallIdx("dfs_release") : j <= err[k].at

\* C14 amended: when lookup succeeds and get-info fails, the get-info failure
\* is reported on the error stream first and the object handle is released
\* right after it; the handler then unwinds through unmount, close and
\* disconnect, prints no info line, writes no diagnostic for the release and
\* returns the get-info code whatever the object release returns.
C14_GetInfoFailure ==
    /\ GetInfoLines # {} => Failed("dfs_obj_get_info")
    /\ Failed("dfs_obj_get_info") =>
        \A g \in CallIdx("dfs_obj_get_info") :
            /\ Succeeded("dfs_lookup")
            /\ Count("dfs_obj_get_info") = 1
            /\ Cardinality(GetInfoLines) = 1
            /\ \A k \in GetInfoLines : err[k].at = g /\ err[k].code = calls[g].ret
            /\ \A j \in CallIdx("dfs_release") : j = g + 1 /\ ErrFor(j) = {}
            /\ out = <<>>
            /\ Len(calls) - g <= 4
            /\ \A k \in 1..(Len(calls) - g) : calls[g + k].fn = GetInfoUnwind[k]
            /\ pc = "returned" => (Len(calls) = g + 4 /\ ret = <<calls[g].ret>>)

\* C14 witness: get-info failed, the release that followed failed too, and
\* the handler returned.
C14_Witness ==
    /\ pc = "returned"
    /\ Failed("dfs_obj_get_info")
    /\ Failed("dfs_release")
    /\ GetInfoLines # {}

\* C15: a stage failure short-circuits the later stages.  After a failed
\* open there is no mount, set-prefix, lookup or get-info call; after a
\* failed mount there is no set-prefix, lookup, get-info or unmount call and
\* the unwind is close then disconnect; after a failed set-prefix there is
\* no lookup or get-info call and nothing is written to stdout.
C15_ShortCircuit ==
    /\ Failed("daos_cont_open") =>
        /\ Count("dfs_mount") = 0
        /\ Count("dfs_set_prefix") = 0
        /\ Count("dfs_lookup") = 0
        /\ Count("dfs_obj_get_info") = 0
    /\ Failed("dfs_mount") =>
        /\ Count("dfs_set_prefix") = 0
        /\ Count("dfs_lookup") = 0
        /\ Count("dfs_obj_get_info") = 0
        /\ Count("dfs_umount") = 0
        /\ \A m \in CallIdx("dfs_mount") :
            /\ Len(calls) - m <= 2
            /\ \A k \in 1..(Len(calls) - m) : calls[m + k].fn = FullUnwind[k + 1]
            /\ pc = "returned" => Len(calls) = m + 2
    /\ Failed("dfs_set_prefix") =>
        /\ Count("dfs_lookup") = 0
        /\ Count("dfs_obj_get_info") = 0
        /\ out = <<>>

\* C15 witness: mount failed and the handler returned after close and
\* disconnect.
C15_Witness ==
    /\ pc = "returned"
    /\ Failed("dfs_mount")
    /\ Count("daos_cont_close") = 1
    /\ Count("daos_pool_disconnect") = 1

\* C16: set-prefix is called exactly when the request has a prefix and
\* connect, open and mount succeeded; it is the call after mount and
\* precedes any lookup; when it fails, unmount, close and disconnect are
\* each called once in that order and the value returned is its code.
C16_SetPrefix ==
    /\ Count("dfs_set_prefix") <= 1
    /\ \A p \in CallIdx("dfs_set_prefix") :
        /\ dfs_prefix # "NULL"
        /\ p = 4
        /\ calls[1].fn = "daos_pool_connect" /\ calls[1].ret = 0
        /\ calls[2].fn = "daos_cont_open" /\ calls[2].ret = 0
        /\ calls[3].fn = "dfs_mount" /\ calls[3].ret = 0
        /\ \A l \in CallIdx("dfs_lookup") : p < l
        /\ calls[p].ret # 0 =>
            /\ Len(calls) - p <= 3
            /\ \A k \in 1..(Len(calls) - p) : calls[p + k].fn = FullUnwind[k]
            /\ pc \in {"out_umount", "out_close", "out_disconnect", "returned"}
            /\ pc = "returned" => (Len(calls) = p + 3 /\ ret = <<calls[p].ret>>)
    /\ (/\ dfs_prefix # "NULL"
        /\ Succeeded("daos_pool_connect")
        /\ Succeeded("daos_cont_open")
        /\ Succeeded("dfs_mount")
        /\ pc # "prefix") => Count("dfs_set_prefix") = 1

\* C16 witness: set-prefix failed, so did the unmount, and the handler
\* returned.
C16_Witness ==
    /\ pc = "returned"
    /\ Failed("dfs_set_prefix")
    /\ Failed("dfs_umount")

ExternalFns == {"daos_pool_connect", "daos_cont_open", "dfs_mount", "dfs_set_prefix",
                "dfs_lookup", "dfs_obj_get_info", "dfs_release", "dfs_umount",
                "daos_cont_close", "daos_pool_disconnect"}

\* C17: every run of a recognized operation ends by returning a code, and
\* no external operation is invoked more than once in a run, so no failed
\* call is retried.
C17_TerminatesNoRetry ==
    /\ [](/\ \A fn \in ExternalFns : Count(fn) <= 1
          /\ \A i \in 1..Len(calls) : calls[i].fn \in ExternalFns)
    /\ (fs_op \in RecognizedOps) ~> (pc = "returned" /\ Len(ret) = 1)

\* C17 witness: a recognized operation returned after its object release
\* failed, the release having been called once.
C17_Witness ==
    /\ pc = "returned"
    /\ fs_op \in RecognizedOps
    /\ Failed("dfs_release")
    /\ ~Failed("dfs_obj_get_info")
    /\ Count("dfs_release") = 1

\* C18: the assertion failure is reached only with an unrecognized
\* operation after connect, open, the read-only mount and the optional
\* set-prefix have succeeded; at that point unmount, close and disconnect
\* have not been invoked and pool, container and mount are still held.
C18_AbortHoldsResources ==
    pc \in {"assert", "aborted"} =>
        /\ Unrecognized
        /\ ChainOk
        /\ Len(calls) = ChainLen
        /\ \A m \in CallIdx("dfs_mount") : calls[m].arg = "O_RDONLY"
        /\ flags = "O_RDONLY"
        /\ Count("dfs_umount") = 0
        /\ Count("daos_cont_close") = 0
        /\ Count("daos_pool_disconnect") = 0
        /\ pool = "held" /\ cont = "held" /\ dfs = "held"
        /\ ret = <<>>

\* C18 witness: the assertion failed in a run with a prefix.
C18_Witness ==
    /\ pc = "aborted"
    /\ dfs_prefix # "NULL"
    /\ Succeeded("dfs_set_prefix")
    /\ dfs = "held"

UntranslatedFns == {"dfs_set_prefix", "dfs_lookup", "dfs_obj_get_info", "dfs_release",
                    "dfs_umount"}

\* C19: when mount fails the value returned is daos_errno2der of the mount
\* code, which differs from the mount code, whatever close and disconnect
\* return; when the first failure is that of set-prefix, lookup, get-info,
\* object release or unmount, its code is returned as the call produced it.
C19_MountCodeTranslated ==
    pc = "returned" =>
        /\ \A m \in CallIdx("dfs_mount") :
            calls[m].ret # 0 =>
                /\ ret = <<daos_errno2der(calls[m].ret)>>
                /\ ret # <<calls[m].ret>>
        /\ (FailIdx # {} /\ calls[FirstFail].fn \in UntranslatedFns) =>
                ret = <<calls[FirstFail].ret>>

\* C19 witness: mount failed, then close and disconnect failed as well.
C19_Witness ==
    /\ pc = "returned"
    /\ Failed("dfs_mount")
    /\ Failed("daos_cont_close")
    /\ Failed("daos_pool_disconnect")

====
